---- MODULE Spec2Model ----
(***************************************************************************)
(* Melo backend: the emotion engine of src/nlp_engine.py                   *)
(* (EmotionDetector, ResponseGenerator, initialize_nlp,                    *)
(* analyze_and_respond) and the module initialisation of src/app.py that   *)
(* loads the classifier at start-up.                                       *)
(*                                                                         *)
(* A text is a sequence of one-character strings.  Scores and confidences  *)
(* are thousandths (1.0 is 1000, 0.5 is 500).  A template string is the    *)
(* triple <<table, emotion, index>> of its place in the tables of          *)
(* ResponseGenerator; the 72 template strings of the source are pairwise   *)
(* different, so the triple identifies the string.                         *)
(***************************************************************************)
EXTENDS Integers, Sequences, FiniteSets, TLC

\* ------------------------------------------------------------- bounds ----
\* Number of request threads that may run analyze_and_respond concurrently.
NumCalls == 2

\* Period of the modelled state of the process-wide random generator.
RngPeriod == 4

Calls == 1..NumCalls

\* --------------------------------------------------------------- state ----
VARIABLES
    booted,            \* app.py has run its module initialisation
    emotion_detector,  \* the global of nlp_engine.py: "None" or "EmotionDetector"
    rng,               \* state of the random module shared by every call
    pc,                \* pc[c]: where call c stands in analyze_and_respond
    message,           \* message[c]: the user_message argument of call c
    emotion_result,    \* emotion_result[c]: what detect_emotion returned
    result,            \* result[c]: the dict analyze_and_respond returned
    classifier_invoked,\* classifier_invoked[c]: self.classifier(text) was called
    inference_failed,  \* inference_failed[c]: that call raised
    chatbot,           \* status of the chatbots row: "absent", "active", "inactive"
    users,             \* committed rows of the users table
    conversations,     \* committed rows of the conversations table
    messages,          \* committed rows of the messages table
    analyses,          \* committed rows of the emotion_analysis table
    session,           \* rows db.session has added or flushed, not yet committed
    request,           \* the /api/chat request being handled
    response,          \* the answer to the last /api/chat request
    before,            \* the committed tables when that request arrived
    served_by          \* served_by[u]: user row that served a 200 for user_id u, or 0

engineVars == <<booted, emotion_detector, rng, pc, message,
                emotion_result, result, classifier_invoked, inference_failed>>

chatVars == <<chatbot, users, conversations, messages, analyses, session,
              request, response, before, served_by>>

vars == <<booted, emotion_detector, rng, pc, message,
          emotion_result, result, classifier_invoked, inference_failed,
          chatbot, users, conversations, messages, analyses, session,
          request, response, before, served_by>>

\* ------------------------------------------------------------ strings ----
\* Python None passed as user_message.
NoneText == <<"<None>">>

Whitespace == {" "}

LowerChar(ch) ==
    CASE ch = "D" -> "d"
      [] ch = "I" -> "i"
      [] ch = "E" -> "e"
      [] ch = "T" -> "t"
      [] ch = "O" -> "o"
      [] ch = "K" -> "k"
      [] ch = "H" -> "h"
      [] OTHER -> ch

\* str.lower()
lower(s) == [i \in 1..Len(s) |-> LowerChar(s[i])]

RECURSIVE lstrip(_)
lstrip(s) == IF s # <<>> /\ Head(s) \in Whitespace THEN lstrip(Tail(s)) ELSE s

RECURSIVE rstrip(_)
rstrip(s) ==
    IF s # <<>> /\ s[Len(s)] \in Whitespace
    THEN rstrip(SubSeq(s, 1, Len(s) - 1))
    ELSE s

\* str.strip()
strip(s) == rstrip(lstrip(s))

\* Python "kw in s" on strings: kw occurs in s as a contiguous substring.
Contains(s, kw) ==
    \E i \in 0..(Len(s) - Len(kw)) : SubSeq(s, i + 1, i + Len(kw)) = kw

\* Python truthiness of a str-or-None value: "not text" holds for None and "".
Falsy(text) == text = NoneText \/ text = <<>>

\* The messages the callers submit.
Messages ==
    { NoneText,
      <<>>,
      <<" ", "h", "m">>,
      <<"D", "I", "E", "!">>,
      <<"h", "e", "l", "l", "o">>,
      <<"s", "o", " ", "s", "a", "d">> }

\* ----------------------------------------------------- the classifier ----
\* pipeline("text-classification", model="boltuix/bert-emotion", top_k=3):
\* an external, deterministic function of the text.  It returns the three
\* best labels in descending order of score, either as a list of dicts or as
\* a one-element list holding that list, depending on the library.
P(label, score) == [label |-> label, score |-> score]

Predictions ==
    << <<P("Anger", 900), P("Disgust", 60), P("Sadness", 20)>>,
       <<P("Happiness", 990), P("Love", 5), P("Surprise", 3)>>,
       <<P("Sadness", 300), P("Fear", 250), P("Neutral", 200)>>,
       <<P("LABEL_0", 700), P("Neutral", 200), P("Fear", 50)>> >>

classifier(text) ==
    LET k == (Len(text) % Len(Predictions)) + 1
    IN  IF k % 2 = 0
        THEN [nested |-> TRUE,  data |-> <<Predictions[k]>>]
        ELSE [nested |-> FALSE, data |-> Predictions[k]]

\* --------------------------------------------------- EmotionDetector ----
NeutralResult(score) ==
    [primary_emotion |-> "Neutral",
     confidence      |-> score,
     all_emotions    |-> <<P("Neutral", score)>>]

\* detect_emotion with the primary emotion drawn from the three candidates
\* by the shared random generator instead of taken from the head of the list.
detect_emotion_random(text, ok) ==
    IF Falsy(text) \/ strip(text) = <<>>
    THEN NeutralResult(1000)
    ELSE IF ~ok
    THEN NeutralResult(500)
    ELSE LET results  == classifier(text)
             emotions == IF results.nested THEN results.data[1] ELSE results.data
             primary  == emotions[(rng % Len(emotions)) + 1]
         IN  [primary_emotion |-> primary.label,
              confidence      |-> primary.score,
              all_emotions    |-> emotions]

\* detect_emotion reporting the score as a percentage instead of a fraction.
detect_emotion_percent(text, ok) ==
    IF Falsy(text) \/ strip(text) = <<>>
    THEN NeutralResult(1000)
    ELSE IF ~ok
    THEN NeutralResult(500)
    ELSE LET results  == classifier(text)
             emotions == IF results.nested THEN results.data[1] ELSE results.data
             primary  == emotions[1]
         IN  [primary_emotion |-> primary.label,
              confidence      |-> primary.score * 100,
              all_emotions    |-> emotions]

\* detect_emotion taking the last candidate of the list as the primary one.
detect_emotion_last(text, ok) ==
    IF Falsy(text) \/ strip(text) = <<>>
    THEN NeutralResult(1000)
    ELSE IF ~ok
    THEN NeutralResult(500)
    ELSE LET results  == classifier(text)
             emotions == IF results.nested THEN results.data[1] ELSE results.data
             primary  == emotions[Len(emotions)]
         IN  [primary_emotion |-> primary.label,
              confidence      |-> primary.score,
              all_emotions    |-> emotions]

\* detect_emotion(text); ok = FALSE when self.classifier(text) raises.
detect_emotion(text, ok) ==
    IF Falsy(text) \/ strip(text) = <<>>
    THEN NeutralResult(1000)
    ELSE IF ~ok
    THEN NeutralResult(500)
    ELSE LET results  == classifier(text)
             emotions == IF results.nested THEN results.data[1] ELSE results.data
             primary  == emotions[1]
         IN  [primary_emotion |-> primary.label,
              confidence      |-> primary.score,
              all_emotions    |-> emotions]

\* The classifier is reached only past the blank-text return of line 56.
InvokesClassifier(text) == ~(Falsy(text) \/ strip(text) = <<>>)

\* ------------------------------------------------- ResponseGenerator ----
\* Every list of EMOTION_RESPONSES and COPING_STRATEGIES holds four strings.
TemplatesPerEmotion == 4

Template(table, emotion, i) == <<table, emotion, i>>

TemplateList(table, emotion) ==
    [i \in 1..TemplatesPerEmotion |-> Template(table, emotion, i)]

ResponseEmotions ==
    {"Sadness", "Anger", "Fear", "Happiness", "Love", "Surprise", "Neutral",
     "Disgust", "Shame", "Guilt", "Confusion", "Desire", "Sarcasm"}

EMOTION_RESPONSES == [e \in ResponseEmotions |-> TemplateList("response", e)]

CopingEmotions == {"Sadness", "Anger", "Fear", "Shame", "Guilt"}

COPING_STRATEGIES == [e \in CopingEmotions |-> TemplateList("coping", e)]

\* Python None as coping_strategy.
None == <<"None", "", 0>>

\* The fixed reply listing the crisis helplines.
CRISIS_RESPONSE == <<"crisis", "helplines", 0>>

crisis_keywords ==
    { <<"s", "u", "i", "c", "i", "d", "e">>,
      <<"k", "i", "l", "l", " ", "m", "y", "s", "e", "l", "f">>,
      <<"e", "n", "d", " ", "i", "t", " ", "a", "l", "l">>,
      <<"d", "o", "n", "'", "t", " ", "w", "a", "n", "t", " ", "t", "o", " ",
        "l", "i", "v", "e">>,
      <<"h", "a", "r", "m", " ", "m", "y", "s", "e", "l", "f">>,
      <<"h", "u", "r", "t", " ", "m", "y", "s", "e", "l", "f">>,
      <<"d", "i", "e">> }

\* any(keyword in user_message.lower() for keyword in crisis_keywords)
HasCrisisKeyword(user_message) ==
    \E keyword \in crisis_keywords : Contains(lower(user_message), keyword)

\* random.choice(seq) when the generator is in state r.
choice(seq, r) == seq[(r % Len(seq)) + 1]

\* Line 248 with the default list used for every emotion.
ResponsesFor_default_only(emotion) == EMOTION_RESPONSES["Neutral"]

\* The template list line 248 selects for an emotion.
ResponsesFor(emotion) ==
    IF emotion \in DOMAIN EMOTION_RESPONSES
    THEN EMOTION_RESPONSES[emotion]
    ELSE EMOTION_RESPONSES["Neutral"]

\* generate_response(emotion, confidence, user_message) for a str message,
\* the random generator being in state r on entry.
generate_response(emotion, confidence, user_message, r) ==
    IF HasCrisisKeyword(user_message)
    THEN [response         |-> CRISIS_RESPONSE,
          coping_strategy  |-> None,
          needs_escalation |-> TRUE]
    ELSE [response         |-> choice(ResponsesFor(emotion), r),
          coping_strategy  |-> IF emotion \in DOMAIN COPING_STRATEGIES
                               THEN choice(COPING_STRATEGIES[emotion], r + 1)
                               ELSE None,
          needs_escalation |-> FALSE]

\* Number of random.choice calls generate_response makes.
RandomDraws(emotion, user_message) ==
    IF HasCrisisKeyword(user_message) THEN 0
    ELSE IF emotion \in DOMAIN COPING_STRATEGIES THEN 2
    ELSE 1

\* ---------------------------------------------------------- operations ----
NoEmotionResult == [primary_emotion |-> "", confidence |-> 0, all_emotions |-> <<>>]

NoResult ==
    [emotion |-> "", confidence |-> 0, all_emotions |-> <<>>,
     response |-> None, coping_strategy |-> None, needs_escalation |-> FALSE]

\* Number of user ids the requests name.
NumUsers == 2

UserIds == 1..NumUsers

NoRows == [users |-> {}, conversations |-> {}, messages |-> {}, analyses |-> {}]

NoText == [chars |-> <<>>, templates |-> <<>>]

NoData ==
    [body |-> "none", has_message |-> FALSE, message |-> <<>>,
     user_id |-> 0, conversation_id |-> 0]

NoRequest ==
    [pc |-> "idle", data |-> NoData, user_message |-> <<>>, user |-> 0,
     prior |-> 0, conversation_id |-> 0, user_msg_id |-> 0]

NoResponse == [status |-> 0, reply |-> NoText, conversation_id |-> 0, message_id |-> 0]

\* The module globals of nlp_engine.py before app.py initialises them.
InitEngine ==
    /\ booted = FALSE
    /\ emotion_detector = "None"
    /\ rng \in 0..(RngPeriod - 1)
    /\ pc = [c \in Calls |-> "idle"]
    /\ message = [c \in Calls |-> <<>>]
    /\ emotion_result = [c \in Calls |-> NoEmotionResult]
    /\ result = [c \in Calls |-> NoResult]
    /\ classifier_invoked = [c \in Calls |-> FALSE]
    /\ inference_failed = [c \in Calls |-> FALSE]

\* No request is being handled and none has been.
InitRequest ==
    /\ session = NoRows
    /\ request = NoRequest
    /\ response = NoResponse
    /\ before = NoRows
    /\ served_by = [u \in UserIds |-> 0]

Init ==
    /\ InitEngine
    /\ chatbot = "absent"
    /\ users = {}
    /\ conversations = {}
    /\ messages = {}
    /\ analyses = {}
    /\ InitRequest

\* EmotionDetector.__init__: pipeline(...) loads the model or raises, and the
\* except clause re-raises.
ModelLoads == BOOLEAN

\* app.py, module initialisation: initialize_nlp() in a try block whose
\* except clause only logs.
AppInitializeNlp ==
    /\ ~booted
    /\ booted' = TRUE
    /\ \E loaded \in ModelLoads :
          emotion_detector' = IF loaded THEN "EmotionDetector" ELSE "None"
    /\ UNCHANGED <<rng, pc, message, emotion_result, result,
                   classifier_invoked, inference_failed>>

\* A request thread enters analyze_and_respond(user_message) and tests the
\* global at line 286: if emotion_detector is None
Call(c, user_message) ==
    /\ booted
    /\ pc[c] = "idle"
    /\ pc' = [pc EXCEPT ![c] = IF emotion_detector = "None" THEN "init" ELSE "detect"]
    /\ message' = [message EXCEPT ![c] = user_message]
    /\ UNCHANGED <<booted, emotion_detector, rng,
                   emotion_result, result, classifier_invoked, inference_failed>>

\* initialize_nlp, line 270: if emotion_detector is None.  When another
\* thread has loaded the detector meanwhile, initialize_nlp returns it and
\* line 287 stores it in the global again.
InitializeNlp(c) ==
    /\ pc[c] = "init"
    /\ pc' = [pc EXCEPT ![c] = IF emotion_detector = "None" THEN "construct" ELSE "detect"]
    /\ emotion_detector' = emotion_detector
    /\ UNCHANGED <<booted, rng, message, emotion_result, result,
                   classifier_invoked, inference_failed>>

\* initialize_nlp, lines 271-272, and line 287 of analyze_and_respond:
\* emotion_detector = EmotionDetector(), returned and stored again; the
\* constructor's exception leaves analyze_and_respond.
ConstructDetector(c) ==
    /\ pc[c] = "construct"
    /\ \E loaded \in ModelLoads :
          IF loaded
          THEN /\ emotion_detector' = "EmotionDetector"
               /\ pc' = [pc EXCEPT ![c] = "detect"]
          ELSE /\ pc' = [pc EXCEPT ![c] = "load_error"]
               /\ UNCHANGED emotion_detector
    /\ UNCHANGED <<booted, rng, message, emotion_result, result,
                   classifier_invoked, inference_failed>>

\* analyze_and_respond, line 290: emotion_detector.detect_emotion(user_message)
DetectEmotion(c) ==
    /\ pc[c] = "detect"
    /\ emotion_detector # "None"
    /\ \E ok \in (IF InvokesClassifier(message[c]) THEN BOOLEAN ELSE {TRUE}) :
          /\ emotion_result' =
                [emotion_result EXCEPT ![c] = detect_emotion(message[c], ok)]
          /\ inference_failed' = [inference_failed EXCEPT ![c] = ~ok]
    /\ classifier_invoked' =
          [classifier_invoked EXCEPT ![c] = InvokesClassifier(message[c])]
    /\ pc' = [pc EXCEPT ![c] = "respond"]
    /\ UNCHANGED <<booted, emotion_detector, rng, message, result>>

\* analyze_and_respond, lines 293-306: generate_response and the returned
\* dict.  user_message.lower() raises AttributeError when the message is None.
Respond(c) ==
    /\ pc[c] = "respond"
    /\ IF message[c] = NoneText
       THEN /\ pc' = [pc EXCEPT ![c] = "attribute_error"]
            /\ UNCHANGED <<rng, result>>
       ELSE LET er == emotion_result[c]
                response_data ==
                    generate_response(er.primary_emotion, er.confidence,
                                      message[c], rng)
            IN  /\ result' = [result EXCEPT ![c] =
                      [emotion          |-> er.primary_emotion,
                       confidence       |-> er.confidence,
                       all_emotions     |-> er.all_emotions,
                       response         |-> response_data.response,
                       coping_strategy  |-> response_data.coping_strategy,
                       needs_escalation |-> response_data.needs_escalation]]
                /\ rng' = (rng + RandomDraws(er.primary_emotion, message[c]))
                             % RngPeriod
                /\ pc' = [pc EXCEPT ![c] = "done"]
    /\ UNCHANGED <<booted, emotion_detector, message,
                   emotion_result, classifier_invoked, inference_failed>>

\* The caller has taken the result (or the exception); the thread is free
\* for the next request.
Return(c) ==
    /\ pc[c] \in {"done", "load_error", "attribute_error"}
    /\ pc' = [pc EXCEPT ![c] = "idle"]
    /\ message' = [message EXCEPT ![c] = <<>>]
    /\ emotion_result' = [emotion_result EXCEPT ![c] = NoEmotionResult]
    /\ result' = [result EXCEPT ![c] = NoResult]
    /\ classifier_invoked' = [classifier_invoked EXCEPT ![c] = FALSE]
    /\ inference_failed' = [inference_failed EXCEPT ![c] = FALSE]
    /\ UNCHANGED <<booted, emotion_detector, rng>>

Next ==
    \/ AppInitializeNlp /\ UNCHANGED chatVars
    \/ \E c \in Calls, user_message \in Messages :
          Call(c, user_message) /\ UNCHANGED chatVars
    \/ \E c \in Calls : InitializeNlp(c) /\ UNCHANGED chatVars
    \/ \E c \in Calls : ConstructDetector(c) /\ UNCHANGED chatVars
    \/ \E c \in Calls : DetectEmotion(c) /\ UNCHANGED chatVars
    \/ \E c \in Calls : Respond(c) /\ UNCHANGED chatVars
    \/ \E c \in Calls : Return(c) /\ UNCHANGED chatVars

Spec == Init /\ [][Next]_vars

\* Call c has returned its result dict.
Returned(c) == pc[c] = "done"

\* Call c has left analyze_and_respond with an exception: the model could not
\* be loaded, or generate_response raised AttributeError.
Raised(c) == pc[c] \in {"load_error", "attribute_error"}

\* ------------------------------------------------ app.py: /api/chat ----
\* Number of requests that may be answered with status 200.
MaxRequests == 2

\* Line 146: len(user_message) > 1000
MaxMessageLength == 1000

\* Line 150: data.get('user_id', 1)
DefaultUserId == 1

\* The request thread that serves /api/chat.
ChatCall == 1

LongMessage == [i \in 1..(MaxMessageLength + 1) |-> "a"]

\* Values of the 'message' key that do not pass line 141 or the checks of
\* lines 143-147: JSON null, blank strings, an overlong string.
RefusedTexts == {NoneText, <<>>, <<" ">>, LongMessage}

\* Values of the 'message' key that pass them.
AcceptedTexts == {<<" ", "h", "m", " ">>, <<"h", "e", "l", "l", "o">>}

\* The request: no JSON document, an object without 'message', or an object
\* with it.
\* user_id and conversation_id are 0 when the key is absent; both are read
\* only past line 147, so the requests refused before it come without them.
JsonBody(text, user_id, conversation_id) ==
    [body |-> "json", has_message |-> TRUE, message |-> text,
     user_id |-> user_id, conversation_id |-> conversation_id]

RequestData ==
    { NoData, [NoData EXCEPT !.body = "json"] }
    \cup { JsonBody(text, 0, 0) : text \in RefusedTexts }
    \cup { JsonBody(text, user_id, conversation_id) :
              text \in AcceptedTexts,
              user_id \in 0..NumUsers,
              conversation_id \in 0..MaxRequests }

MaxOf(S) == IF S = {} THEN 0 ELSE CHOOSE x \in S : \A y \in S : y <= x

\* autoincrement primary keys (models.py lines 21, 65, 91, 116)
NextUserId == MaxOf({u.user_id : u \in users \cup session.users}) + 1

NextConversationId ==
    MaxOf({c.conversation_id : c \in conversations \cup session.conversations}) + 1

NextMessageId ==
    MaxOf({m.message_id : m \in messages \cup session.messages}) + 1

NextAnalysisId ==
    MaxOf({a.analysis_id : a \in analyses \cup session.analyses}) + 1

Committed ==
    [users |-> users, conversations |-> conversations,
     messages |-> messages, analyses |-> analyses]

\* message_text of a user message and of a bot message.
UserText(chars) == [chars |-> chars, templates |-> <<>>]

\* Lines 208-210: the response, followed by the coping strategy if there is one.
BotText(reply, coping_strategy) ==
    [chars |-> <<>>,
     templates |-> IF coping_strategy = None
                   THEN <<reply>>
                   ELSE <<reply, coping_strategy>>]

\* User(username=..., email=..., password_hash=...), lines 154-158, with an
\* email column in the users table, so that the constructor succeeds.
UserConstructorAccepts == FALSE

\* User(username=..., email=..., password_hash=...), lines 154-158: the User
\* model (models.py lines 13-26) has no email attribute, and the declarative
\* constructor raises TypeError for a keyword that is not one.
UserConstructorRaises == TRUE

GuestUser(user_id, asked_id) ==
    [user_id |-> user_id, username |-> <<"guest", asked_id>>]

\* Line 138: not data or 'message' not in data
MessageRequired(data) == data.body = "none" \/ ~data.has_message

\* Lines 143-147: the stripped message is empty or longer than 1000.
Rejected(user_message) ==
    user_message = <<>> \/ Len(user_message) > MaxMessageLength

\* Lines 171-174 without the ownership test.
OwnedConversation_any_user(conversation_id, user) ==
    IF conversation_id # 0
    THEN {c \in conversations : c.conversation_id = conversation_id}
    ELSE {}

\* Lines 171-174: the conversation the request names, if it exists and
\* belongs to the user.
OwnedConversation(conversation_id, user) ==
    IF conversation_id # 0
    THEN {c \in conversations :
              c.conversation_id = conversation_id /\ c.user_id = user}
    ELSE {}

\* Lines 186-191 storing the message as received.
UserMessage_unstripped(message_id, conversation_id, data, user_message) ==
    [message_id      |-> message_id,
     conversation_id |-> conversation_id,
     sender_type     |-> "user",
     message_text    |-> UserText(data.message),
     message_type    |-> "text"]

\* Lines 186-191: the Message row of the user's message.
UserMessage(message_id, conversation_id, data, user_message) ==
    [message_id      |-> message_id,
     conversation_id |-> conversation_id,
     sender_type     |-> "user",
     message_text    |-> UserText(user_message),
     message_type    |-> "text"]

\* Lines 199-204 attaching the analysis to the message saved next.
EmotionAnalysisRow_next_message(analysis_id, message_id, analysis_result) ==
    [analysis_id        |-> analysis_id,
     message_id         |-> message_id + 1,
     detected_emotion   |-> analysis_result.emotion,
     confidence_score   |-> analysis_result.confidence,
     secondary_emotions |-> analysis_result.all_emotions]

\* Lines 199-204: the EmotionAnalysis row of the user's message.
EmotionAnalysisRow(analysis_id, message_id, analysis_result) ==
    [analysis_id        |-> analysis_id,
     message_id         |-> message_id,
     detected_emotion   |-> analysis_result.emotion,
     confidence_score   |-> analysis_result.confidence,
     secondary_emotions |-> analysis_result.all_emotions]

\* db.session.rollback() that writes the pending rows instead of dropping them.
RolledBack_keeps_pending(table, pending) == table \cup pending

\* Line 235, db.session.rollback(): the pending rows are dropped.
RolledBack(table, pending) == table

\* The tables as the data base holds them before the application starts.
ExistingUsers(n) == {[user_id |-> u, username |-> <<"member", u>>] : u \in 1..n}

InitChat ==
    /\ InitEngine
    /\ chatbot \in {"absent", "inactive"}
    /\ users \in {ExistingUsers(n) : n \in 0..NumUsers}
    /\ conversations = {}
    /\ messages = {}
    /\ analyses = {}
    /\ InitRequest

\* app.py lines 68-92: create the default chatbot if there is none, then
\* initialize_nlp().
AppStart ==
    /\ AppInitializeNlp
    /\ chatbot' = IF chatbot = "absent" THEN "active" ELSE chatbot
    /\ UNCHANGED <<users, conversations, messages, analyses, session,
                   request, response, before, served_by>>

\* chat() returns before it calls analyze_and_respond.
AnswerEarly(data, status, users_after) ==
    /\ users' = users_after
    /\ session' = NoRows
    /\ request' = [NoRequest EXCEPT !.pc = "responded", !.data = data]
    /\ response' = [NoResponse EXCEPT !.status = status]
    /\ UNCHANGED <<conversations, messages, analyses>>
    /\ UNCHANGED engineVars

\* Line 136, request.get_json(), for a request without a JSON document: it
\* returns None, or it raises (BadRequest for an empty body sent as
\* application/json, UnsupportedMediaType for another content type), which
\* depends on the request's Content-Type and on the Flask release.
GetJsonRaises == BOOLEAN

\* chat(), lines 135-196: from the arrival of the request to the call of
\* analyze_and_respond.
ChatBegin(data, get_json_raises) ==
    /\ booted
    /\ get_json_raises => data.body = "none"
    /\ request.pc \in {"idle", "responded"}
    /\ Cardinality(messages) < 2 * MaxRequests
    /\ before' = Committed
    /\ UNCHANGED <<chatbot, served_by>>
    /\ IF get_json_raises
       THEN \* line 136 raises inside the try block; lines 234-237
            AnswerEarly(data, 500, users)
       ELSE IF MessageRequired(data)
       THEN AnswerEarly(data, 400, users)
       ELSE IF data.message = NoneText
       THEN \* line 141: None has no strip(); lines 234-237
            AnswerEarly(data, 500, users)
       ELSE
       LET user_message == strip(data.message)
           user_id  == IF data.user_id = 0 THEN DefaultUserId ELSE data.user_id
           found    == {u \in users : u.user_id = user_id}
           new_user == GuestUser(NextUserId, user_id)
           taken    == \E u \in users : u.username = new_user.username
       IN
       IF Rejected(user_message)
       THEN AnswerEarly(data, 400, users)
       ELSE IF found = {} /\ (UserConstructorRaises \/ taken)
       THEN \* lines 154-160 raise; lines 234-237
            AnswerEarly(data, 500, users)
       ELSE
       LET users_after == IF found = {} THEN users \cup {new_user} ELSE users
           user  == IF found = {} THEN new_user.user_id ELSE user_id
           owned == OwnedConversation(data.conversation_id, user)
           conversation_id ==
               IF owned # {} THEN data.conversation_id ELSE NextConversationId
           user_msg ==
               UserMessage(NextMessageId, conversation_id, data, user_message)
       IN
       IF chatbot # "active"
       THEN AnswerEarly(data, 503, users_after)
       ELSE /\ users' = users_after
            /\ session' =
                  [NoRows EXCEPT
                     !.conversations =
                        IF owned = {}
                        THEN {[conversation_id |-> conversation_id,
                               user_id |-> user]}
                        ELSE {},
                     !.messages = {user_msg}]
            /\ request' =
                  [pc |-> "analyze", data |-> data,
                   user_message |-> user_message, user |-> user,
                   prior |-> served_by[user_id],
                   conversation_id |-> conversation_id,
                   user_msg_id |-> user_msg.message_id]
            /\ response' = NoResponse
            /\ UNCHANGED <<conversations, messages, analyses>>
            /\ Call(ChatCall, user_message)

\* analyze_and_respond runs for the request.
ChatAnalyze ==
    /\ request.pc = "analyze"
    /\ \/ InitializeNlp(ChatCall)
       \/ ConstructDetector(ChatCall)
       \/ DetectEmotion(ChatCall)
       \/ Respond(ChatCall)
    /\ UNCHANGED chatVars

\* chat(), lines 198-232: analyze_and_respond has returned; the analysis and
\* the bot message are added and everything is committed.
ChatFinish ==
    /\ request.pc = "analyze"
    /\ pc[ChatCall] = "done"
    /\ LET analysis_result == result[ChatCall]
           emotion_analysis ==
               EmotionAnalysisRow(NextAnalysisId, request.user_msg_id,
                                  analysis_result)
           bot_response ==
               BotText(analysis_result.response, analysis_result.coping_strategy)
           bot_msg ==
               [message_id      |-> NextMessageId,
                conversation_id |-> request.conversation_id,
                sender_type     |-> "bot",
                message_text    |-> bot_response,
                message_type    |-> IF analysis_result.coping_strategy # None
                                    THEN "suggestion" ELSE "text"]
           user_id == IF request.data.user_id = 0
                      THEN DefaultUserId ELSE request.data.user_id
       IN  /\ conversations' = conversations \cup session.conversations
           /\ messages' = messages \cup session.messages \cup {bot_msg}
           /\ analyses' = analyses \cup session.analyses \cup {emotion_analysis}
           /\ response' =
                 [status |-> 200, reply |-> bot_response,
                  conversation_id |-> request.conversation_id,
                  message_id |-> bot_msg.message_id]
           /\ served_by' =
                 IF served_by[user_id] = 0
                 THEN [served_by EXCEPT ![user_id] = request.user]
                 ELSE served_by
    /\ session' = NoRows
    /\ request' = [request EXCEPT !.pc = "responded"]
    /\ Return(ChatCall)
    /\ UNCHANGED <<chatbot, users, before>>

\* chat(), lines 234-237: analyze_and_respond has raised; rollback, 500.
ChatError ==
    /\ request.pc = "analyze"
    /\ Raised(ChatCall)
    /\ conversations' = RolledBack(conversations, session.conversations)
    /\ messages' = RolledBack(messages, session.messages)
    /\ analyses' = RolledBack(analyses, session.analyses)
    /\ session' = NoRows
    /\ request' = [request EXCEPT !.pc = "responded"]
    /\ response' = [NoResponse EXCEPT !.status = 500]
    /\ Return(ChatCall)
    /\ UNCHANGED <<chatbot, users, before, served_by>>

NextChat ==
    \/ AppStart
    \/ \E data \in RequestData, get_json_raises \in GetJsonRaises :
          ChatBegin(data, get_json_raises)
    \/ ChatAnalyze
    \/ ChatFinish
    \/ ChatError

SpecChat == InitChat /\ [][NextChat]_vars

\* ------------------------------------------------------------- claims ----
Range(seq) == {seq[i] : i \in DOMAIN seq}

\* The message is a str that contains a crisis phrase, case-insensitively.
ContainsCrisisPhrase(user_message) ==
    user_message # NoneText /\ HasCrisisKeyword(user_message)

\* C1: the result returned for a message that contains a crisis phrase has
\* needs_escalation = true and emotion = "Crisis", whatever the classifier
\* reports for the text.
C1_CrisisOverridesEmotion ==
    \A c \in Calls :
        (Returned(c) /\ ContainsCrisisPhrase(message[c])) =>
            /\ result[c].needs_escalation
            /\ result[c].emotion = "Crisis"

\* C2: the crisis check comes first, and the classifier is never invoked in
\* a call whose message contains a crisis phrase.
C2_CrisisShortCircuitsClassifier ==
    \A c \in Calls :
        ContainsCrisisPhrase(message[c]) => ~classifier_invoked[c]

\* C3: the result returned for a message that contains a crisis phrase has
\* confidence 1.0, no coping strategy and the fixed helpline reply.
C3_CrisisResultIsFixed ==
    \A c \in Calls :
        (Returned(c) /\ ContainsCrisisPhrase(message[c])) =>
            /\ result[c].confidence = 1000
            /\ result[c].coping_strategy = None
            /\ result[c].response = CRISIS_RESPONSE

\* C4: every call returns a complete result and raises nothing, whatever the
\* input and whatever the classifier does when loaded or invoked.
C4_NeverRaises ==
    \A c \in Calls : ~Raised(c)

\* C5: for empty or null text, a call that has its detector returns Neutral
\* with confidence 0.5 and an empty all_emotions, without invoking the
\* classifier and without raising.
C5_EmptyInputIsNeutral ==
    \A c \in Calls :
        (Falsy(message[c]) /\ pc[c] \in {"done", "attribute_error"}) =>
            /\ Returned(c)
            /\ result[c].emotion = "Neutral"
            /\ result[c].confidence = 500
            /\ result[c].all_emotions = <<>>
            /\ ~classifier_invoked[c]

\* C6: the engine holds no mutable shared state: once the application is up,
\* no step of a call writes the state the calls share (the detector global,
\* the random generator), so no call reads what another call wrote.
C6_NoSharedMutableState ==
    [][booted => (emotion_detector' = emotion_detector /\ rng' = rng)]_vars

C8_ResponseFromTemplates ==
    \A c \in Calls :
        (Returned(c) /\ ~result[c].needs_escalation) =>
            IF result[c].emotion \in DOMAIN EMOTION_RESPONSES
            THEN result[c].response \in Range(EMOTION_RESPONSES[result[c].emotion])
            ELSE result[c].response \in Range(EMOTION_RESPONSES["Neutral"])

\* One non-crisis result for an emotion with templates other than Neutral and
\* one for a label without templates.
C8_Witness ==
    \E c1, c2 \in Calls :
        /\ Returned(c1) /\ ~result[c1].needs_escalation
        /\ result[c1].emotion \in DOMAIN EMOTION_RESPONSES \ {"Neutral"}
        /\ Returned(c2) /\ ~result[c2].needs_escalation
        /\ result[c2].emotion \notin DOMAIN EMOTION_RESPONSES

\* C9: a detection of weak intensity carries no coping strategy, even for an
\* emotion of the coping table.  The engine's only measure of evidence is the
\* confidence; weak is read as a confidence under 0.66, the confidence the
\* specification's formula gives at its weak/medium boundary.
C9_NoCopingWhenWeak ==
    \A c \in Calls :
        (Returned(c) /\ result[c].confidence < 660
                     /\ result[c].emotion \in DOMAIN COPING_STRATEGIES) =>
            result[c].coping_strategy = None

C11_AllEmotionsOrdered ==
    \A c \in Calls :
        Returned(c) =>
            LET all == result[c].all_emotions
            IN  /\ Len(all) <= 3
                /\ \A i \in 1..(Len(all) - 1) : all[i].score >= all[i + 1].score
                /\ all # <<>> =>
                      /\ all[1].label = result[c].emotion
                      /\ all[1].score = result[c].confidence

\* A result carrying the classifier's three candidates has been returned.
C11_Witness ==
    \E c \in Calls :
        /\ Returned(c)
        /\ classifier_invoked[c] /\ ~inference_failed[c]
        /\ Len(result[c].all_emotions) = 3

\* ------------------------------------------------- claims on /api/chat ----
\* The user_id a request asks for (line 150).
RequestedUser(data) == IF data.user_id = 0 THEN DefaultUserId ELSE data.user_id

\* The last request has been answered with the given status.
Answered(status) == request.pc = "responded" /\ response.status = status

\* The message rows the last request has added to the messages table.
AddedMessages == messages \ before.messages

\* C12: every persisted user message has exactly one emotion-analysis record,
\* and every emotion-analysis record refers to a persisted message that is a
\* user message, never a bot message.
C12_OneAnalysisPerUserMessage ==
    /\ \A m \in messages :
          m.sender_type = "user" =>
              Cardinality({a \in analyses : a.message_id = m.message_id}) = 1
    /\ \A a \in analyses :
          \E m \in messages :
              m.message_id = a.message_id /\ m.sender_type = "user"

C12_Witness ==
    /\ Cardinality(analyses) = 2
    /\ Cardinality({m \in messages : m.sender_type = "bot"}) = 2

\* The request's body is missing, has no 'message' key, or has a message
\* that is empty or longer than 1000 characters once stripped.
InvalidRequest(data) ==
    \/ data.body = "none"
    \/ ~data.has_message
    \/ /\ data.message # NoneText
       /\ \/ strip(data.message) = <<>>
          \/ Len(strip(data.message)) > 1000

\* C13: a chat request whose body is missing, has no 'message' key, or whose
\* stripped message is empty or longer than 1000 characters is answered with
\* status 400, leaves users, conversations, messages and emotion analyses
\* unchanged, and does not invoke the classifier.
C13_InvalidRequestAnswered400 ==
    (request.pc = "responded" /\ InvalidRequest(request.data)) =>
        /\ response.status = 400
        /\ Committed = before
        /\ ~classifier_invoked[ChatCall]

\* C14: a chat request that ends with status 500 leaves users, conversations,
\* messages and emotion analyses exactly as they were before the request, and
\* nothing is left pending.
C14_FailedRequestLeavesStore ==
    Answered(500) => (Committed = before /\ session = NoRows)

C14_Witness ==
    /\ Answered(500)
    /\ request.user_msg_id # 0
    /\ request.conversation_id \notin
          {c.conversation_id : c \in conversations}

\* C15: every message a chat request stores lies in a conversation of the user
\* the request was served for; a conversation_id that is unknown or belongs to
\* another user is not written to, a new conversation of the requesting user
\* is created instead.
C15_MessagesInOwnConversation ==
    Answered(200) =>
        /\ \A m \in AddedMessages :
              \E c \in conversations :
                  /\ c.conversation_id = m.conversation_id
                  /\ c.user_id = request.user
        /\ (~\E c \in before.conversations :
                 /\ c.conversation_id = request.data.conversation_id
                 /\ c.user_id = request.user)
           => /\ \A c \in before.conversations :
                    c.conversation_id # response.conversation_id
              /\ \A m \in AddedMessages :
                    m.conversation_id = response.conversation_id
              /\ \E c \in conversations \ before.conversations :
                    /\ c.conversation_id = response.conversation_id
                    /\ c.user_id = request.user

C15_Witness ==
    /\ Answered(200)
    /\ \E c \in before.conversations :
          /\ c.conversation_id = request.data.conversation_id
          /\ c.user_id # request.user
    /\ response.conversation_id # request.data.conversation_id

C17_TwoMessagesOneConversation ==
    Answered(200) =>
        /\ Cardinality(AddedMessages) = 2
        /\ \A m \in AddedMessages :
              m.conversation_id = response.conversation_id
        /\ \E c \in conversations :
              c.conversation_id = response.conversation_id
        /\ \E um, bm \in AddedMessages :
              /\ um.sender_type = "user"
              /\ um.message_text = UserText(strip(request.data.message))
              /\ bm.sender_type = "bot"
              /\ bm.message_text = response.reply
              /\ bm.message_id = response.message_id
              /\ um.message_id < bm.message_id
        /\ conversations \ before.conversations \in
              {{}, {[conversation_id |-> response.conversation_id,
                     user_id |-> request.user]}}

C17_Witness ==
    /\ Answered(200)
    /\ request.data.message # strip(request.data.message)
    /\ Len(response.reply.templates) = 2
====
